---- MODULE Spec2Model ----
(***************************************************************************)
(* Pairing-session lifecycle of Rayokish/pair.                             *)
(*                                                                         *)
(*   src/server.js  code-only flow: POST /generate-pair-code,              *)
(*                  POST /verify-pair-code, GET /get-credentials and the   *)
(*                  hourly sweep over the pairingCodes Map.                *)
(*   src/index.js   full pairing flow: GET /pair with the pairingAttempts  *)
(*                  throttle, the temp_sessions directories and the        *)
(*                  handshake with the messaging library.                  *)
(*                                                                         *)
(* The two files are two programs.  Spec is server.js, PairSpec is         *)
(* index.js; each leaves the other program's variables at their initial    *)
(* value.  Strings are sequences of one-character strings, times are       *)
(* milliseconds as Date.now() returns them.                                *)
(*                                                                         *)
(*   TripSpec        server.js with each number's round trip recorded      *)
(*   ConcurrentSpec  index.js with two admitted requests in flight         *)
(*   ThrottleSpec    the same with every admitted request on record        *)
(*   TimedSpec       index.js with every timer run at its deadline, the    *)
(*                   library's late events, and fairness of the timers     *)
(*   FaultSpec       index.js on a file system whose fs.rmSync may throw   *)
(*   EitherSpec      either program, one client at a time                  *)
(*   ReaperSpec      either program with its sweep at work                 *)
(***************************************************************************)
EXTENDS Integers, Sequences, FiniteSets, TLC

VARIABLES
    clock,            \* Date.now()
    ticks,            \* how many times the clock has advanced (bounded)
    pairingCodes,     \* server.js: Map number -> {code, expiresAt, verified}
    nextSweep,        \* server.js: when the setInterval sweep is next due
    res,              \* server.js: the last response sent
    trip,             \* server.js: per number, the responses of the round trip so far
    pairingAttempts,  \* index.js: Map number -> list of attempt timestamps
    sessions,         \* index.js: one record per admitted /pair request:
                      \*   pc      where the handler stands
                      \*   socket  "none", "open" or "closed"
                      \*   timer   deadline of the connection timer, then of
                      \*           the 2 min cleanup timer (0: none)
                      \*   race    deadline of the timer raced against
                      \*           requestPairingCode (0: none)
                      \*   lib     what the library still owes this request
                      \*   sent    how many responses the request was sent
    dirs,             \* index.js: temp_sessions: directory name -> birthtimeMs
    hasSessionsDir,   \* index.js: temp_sessions exists
    nextCleanup,      \* index.js: when the setInterval cleanup is next due
    pres,             \* index.js: the last response sent
    running,          \* index.js: the process has not exited
    admitted          \* index.js, kept for the record in ThrottleSpec only:
                      \* number -> the times of all requests that passed the
                      \* throttle

vars == <<clock, ticks, pairingCodes, nextSweep, res, trip,
          pairingAttempts, sessions, dirs, hasSessionsDir, nextCleanup, pres,
          running, admitted>>

serverVars == <<pairingCodes, nextSweep, res>>
pairVars == <<pairingAttempts, sessions, dirs, hasSessionsDir, nextCleanup, pres,
              running, admitted>>

(***************************************************************************)
(* Bounds of the model.                                                    *)
(***************************************************************************)
MaxTicks == 2
MaxPairTicks == 1
MaxSessions == 1

(***************************************************************************)
(* Strings.                                                                *)
(***************************************************************************)
Undefined == <<"undefined">>      \* a request field that is missing

Falsy(v) == v = Undefined \/ v = <<>>

Digits == {"0", "1", "2", "3", "4", "5", "6", "7", "8", "9"}

HexDigits == <<"0", "1", "2", "3", "4", "5", "6", "7",
               "8", "9", "a", "b", "c", "d", "e", "f">>

ToUpperChar(c) ==
    CASE c = "a" -> "A" [] c = "b" -> "B" [] c = "c" -> "C"
      [] c = "d" -> "D" [] c = "e" -> "E" [] c = "f" -> "F"
      [] OTHER -> c

ToLowerChar(c) ==
    CASE c = "A" -> "a" [] c = "B" -> "b" [] c = "C" -> "c"
      [] c = "D" -> "d" [] c = "E" -> "e" [] c = "F" -> "f"
      [] OTHER -> c

ToUpperCase(s) == [i \in 1..Len(s) |-> ToUpperChar(s[i])]

ToLowerCase(s) == [i \in 1..Len(s) |-> ToLowerChar(s[i])]

\* Buffer.toString('hex'): two lower-case hex digits per byte
ToHex(bytes) ==
    [i \in 1..(2 * Len(bytes)) |->
        IF i % 2 = 1 THEN HexDigits[(bytes[(i + 1) \div 2] \div 16) + 1]
                     ELSE HexDigits[(bytes[i \div 2] % 16) + 1]]

\* the outcomes of crypto.randomBytes(4) the model draws from
RandomBytes4 == {<<222, 173, 190, 239>>, <<0, 17, 34, 51>>}

generatePairingCode(bytes) == ToUpperCase(ToHex(bytes))

(***************************************************************************)
(* Request inputs.                                                         *)
(***************************************************************************)
Kenyan7 == <<"2", "5", "4", "7", "1", "2", "3", "4", "5", "6", "7", "8">>
Kenyan8 == <<"2", "5", "4", "8", "1", "2", "3", "4", "5", "6", "7", "8">>
SixDigits == <<"1", "2", "3", "4", "5", "6">>
FiveDigits == <<"1", "2", "3", "4", "5">>
Letters == <<"a", "b", "c">>
TwentyOneDigits == [i \in 1..21 |-> "1"]

ServerNumbers ==
    {Undefined, <<>>, Letters, FiveDigits, SixDigits, Kenyan7, TwentyOneDigits}

\* the numbers the lookups are asked about
LookupNumbers == {Undefined, Letters, SixDigits, Kenyan7}

CodeInputs ==
    {Undefined} \cup {ToHex(b) : b \in RandomBytes4}
                \cup {ToUpperCase(ToHex(b)) : b \in RandomBytes4}

(***************************************************************************)
(* server.js                                                               *)
(***************************************************************************)
CODE_TTL == 300000
SWEEP_INTERVAL == 3600000

\* /^\d{6,20}$/.test(number)
MatchesDigits6to20(s) ==
    /\ Len(s) >= 6
    /\ Len(s) <= 20
    /\ \A i \in 1..Len(s) : s[i] \in Digits

Put(m, k, v) == [x \in DOMAIN m \cup {k} |-> IF x = k THEN v ELSE m[x]]

Delete(m, k) == [x \in DOMAIN m \ {k} |-> m[x]]

NoCode == <<>>

Response(status, success, message) ==
    [status |-> status, success |-> success, message |-> message,
     code |-> NoCode, expiresAt |-> 0, credentials |-> FALSE]

\* app.post('/generate-pair-code'); crypto.randomBytes is drawn only once the
\* number has passed validation
GeneratePairCode(number) ==
    /\ IF Falsy(number) \/ ~MatchesDigits6to20(number)
       THEN LET r == Response(400, FALSE, "Invalid phone number format")
            IN  /\ pairingCodes' = pairingCodes
                /\ res' = r
       ELSE \E bytes \in RandomBytes4 :
            LET code == generatePairingCode(bytes)
                expiresAt == clock + CODE_TTL
                r == [Response(200, TRUE, "") EXCEPT
                         !.code = code, !.expiresAt = expiresAt]
            IN  /\ pairingCodes' = Put(pairingCodes, number,
                       [code |-> code, expiresAt |-> expiresAt, verified |-> FALSE])
                /\ res' = r
    /\ UNCHANGED <<clock, ticks, nextSweep>>
    /\ UNCHANGED pairVars

\* VerifyResponse without the comparison of Date.now() with expiresAt
VerifyResponseNoExpiryCheck(number, code) ==
    IF Falsy(number) \/ Falsy(code)
    THEN Response(400, FALSE, "Number and code are required")
    ELSE IF number \notin DOMAIN pairingCodes
    THEN Response(200, FALSE, "No active pairing session for this number")
    ELSE IF pairingCodes[number].code # ToUpperCase(code)
    THEN Response(200, FALSE, "Invalid pairing code")
    ELSE Response(200, TRUE, "Pairing code verified successfully")

\* VerifyResponse without code.toUpperCase()
VerifyResponseCaseSensitive(number, code) ==
    IF Falsy(number) \/ Falsy(code)
    THEN Response(400, FALSE, "Number and code are required")
    ELSE IF number \notin DOMAIN pairingCodes
    THEN Response(200, FALSE, "No active pairing session for this number")
    ELSE IF clock > pairingCodes[number].expiresAt
    THEN Response(200, FALSE, "Pairing code has expired")
    ELSE IF pairingCodes[number].code # code
    THEN Response(200, FALSE, "Invalid pairing code")
    ELSE Response(200, TRUE, "Pairing code verified successfully")

\* the response of app.post('/verify-pair-code'), by its chain of early returns
VerifyResponse(number, code) ==
    IF Falsy(number) \/ Falsy(code)
    THEN Response(400, FALSE, "Number and code are required")
    ELSE IF number \notin DOMAIN pairingCodes
    THEN Response(200, FALSE, "No active pairing session for this number")
    ELSE IF clock > pairingCodes[number].expiresAt
    THEN Response(200, FALSE, "Pairing code has expired")
    ELSE IF pairingCodes[number].code # ToUpperCase(code)
    THEN Response(200, FALSE, "Invalid pairing code")
    ELSE Response(200, TRUE, "Pairing code verified successfully")

\* VerifyStore deleting the record on a wrong code too
VerifyStoreDropsOnInvalid(number, r) ==
    CASE r.message \in {"Pairing code has expired", "Invalid pairing code"} ->
             Delete(pairingCodes, number)
      [] r.success ->
             Put(pairingCodes, number, [pairingCodes[number] EXCEPT !.verified = TRUE])
      [] OTHER -> pairingCodes

\* what app.post('/verify-pair-code') does to the Map on the way to response r
VerifyStore(number, r) ==
    CASE r.message = "Pairing code has expired" -> Delete(pairingCodes, number)
      [] r.success ->
             Put(pairingCodes, number, [pairingCodes[number] EXCEPT !.verified = TRUE])
      [] OTHER -> pairingCodes

\* app.post('/verify-pair-code')
VerifyPairCode(number, code) ==
    LET r == VerifyResponse(number, code)
    IN  /\ pairingCodes' = VerifyStore(number, r)
        /\ res' = r
        /\ UNCHANGED <<clock, ticks, nextSweep>>
        /\ UNCHANGED pairVars

\* CredentialsResponse without the check of storedData.verified
CredentialsResponseUnverified(number) ==
    IF Falsy(number)
    THEN Response(400, FALSE, "Number is required")
    ELSE IF number \notin DOMAIN pairingCodes
    THEN Response(200, FALSE, "No pairing session found")
    ELSE [Response(200, TRUE, "") EXCEPT !.credentials = TRUE]

\* the response of app.get('/get-credentials'); the random credential material
\* is reduced to its presence in the response
CredentialsResponse(number) ==
    IF Falsy(number)
    THEN Response(400, FALSE, "Number is required")
    ELSE IF number \notin DOMAIN pairingCodes
    THEN Response(200, FALSE, "No pairing session found")
    ELSE IF ~pairingCodes[number].verified
    THEN Response(200, FALSE, "Pairing code not verified")
    ELSE [Response(200, TRUE, "") EXCEPT !.credentials = TRUE]

\* CredentialsStore without pairingCodes.delete(number)
CredentialsStoreKeeps(number, r) == pairingCodes

\* pairingCodes.delete(number) after successful credential generation
CredentialsStore(number, r) ==
    IF r.success THEN Delete(pairingCodes, number) ELSE pairingCodes

\* app.get('/get-credentials')
GetCredentials(number) ==
    LET r == CredentialsResponse(number)
    IN  /\ pairingCodes' = CredentialsStore(number, r)
        /\ res' = r
        /\ UNCHANGED <<clock, ticks, nextSweep>>
        /\ UNCHANGED pairVars

\* SweptCodes with the comparison inverted
SweptCodesInverted(m, now) ==
    [n \in {k \in DOMAIN m : now > m[k].expiresAt} |-> m[n]]

\* the loop of the sweep over pairingCodes.entries(): what is left of Map m
\* after a run at time now
SweptCodes(m, now) ==
    [n \in {k \in DOMAIN m : ~(now > m[k].expiresAt)} |-> m[n]]

\* setInterval(() => { ... }, 3600000): the callback runs once the interval is
\* over, possibly late, deletes every record with now > expiresAt, and the next
\* run is due an interval later
SweepExpiredCodes ==
    /\ clock >= nextSweep
    /\ pairingCodes' = SweptCodes(pairingCodes, clock)
    /\ nextSweep' = clock + SWEEP_INTERVAL
    /\ UNCHANGED <<clock, ticks, res>>
    /\ UNCHANGED pairVars

ServerSteps == {CODE_TTL, SWEEP_INTERVAL}

\* time passes between two callbacks of server.js
ServerTick(d, most) ==
    /\ ticks < most
    /\ clock' = clock + d
    /\ ticks' = ticks + 1
    /\ UNCHANGED serverVars
    /\ UNCHANGED pairVars

(***************************************************************************)
(* index.js                                                                *)
(***************************************************************************)
MAX_ATTEMPTS == 3
ATTEMPT_WINDOW == 3600000
STALE_CUTOFF == 86400000
HANDSHAKE_TIMEOUT == 30000
PAIR_EXPIRES == 120000
CLEANUP_INTERVAL == 3600000

PairNumbers == {Undefined, <<>>, Letters, SixDigits, Kenyan8, Kenyan7}

\* the pairing codes socket.requestPairingCode resolves with in the model
LibraryCodes == {<<"A", "B", "C", "D", "1", "2", "3", "4">>}

\* MatchesKenyan with [0-9] for [17]
MatchesKenyanAnyFourth(s) ==
    /\ Len(s) = 12
    /\ s[1] = "2" /\ s[2] = "5" /\ s[3] = "4"
    /\ \A i \in 4..12 : s[i] \in Digits

\* number.match(/^254[17][0-9]{8}$/)
MatchesKenyan(s) ==
    /\ Len(s) = 12
    /\ s[1] = "2" /\ s[2] = "5" /\ s[3] = "4"
    /\ s[4] \in {"1", "7"}
    /\ \A i \in 5..12 : s[i] \in Digits

\* pairingCode.match(/.{1,3}/g)?.join('-') || pairingCode
RECURSIVE FormatCode(_)
FormatCode(code) ==
    IF Len(code) <= 3 THEN code
    ELSE SubSeq(code, 1, 3) \o <<"-">> \o FormatCode(SubSeq(code, 4, Len(code)))

PairResponse(status, success, message) ==
    [status |-> status, success |-> success, message |-> message, pairCode |-> NoCode]

Attempts(number) ==
    IF number \in DOMAIN pairingAttempts THEN pairingAttempts[number] ELSE <<>>

\* RecentAttempts counting only the attempts of the last two minutes
RecentAttemptsShortWindow(number) ==
    SelectSeq(Attempts(number), LAMBDA t : clock - t < PAIR_EXPIRES)

\* attempts.filter(t => now - t < ATTEMPT_WINDOW)
RecentAttempts(number) ==
    SelectSeq(Attempts(number), LAMBDA t : clock - t < ATTEMPT_WINDOW)

\* RateLimited with > for >=
RateLimitedOffByOne(recent) == Len(recent) > MAX_ATTEMPTS

\* recentAttempts.length >= MAX_ATTEMPTS
RateLimited(recent) == Len(recent) >= MAX_ATTEMPTS

AdmittedOf(number) ==
    IF number \in DOMAIN admitted THEN admitted[number] ELSE <<>>

\* path.join(__dirname, 'temp_sessions', `session_${number}_${Date.now()}`)
SessionDir(number) == [number |-> number, at |-> clock]

\* cleanupOldSessions run at time now over the directories ds, none of the
\* file-system calls throwing: what is left in temp_sessions
CleanedDirs(ds, exists, now) ==
    IF ~exists THEN ds
    ELSE [d \in {x \in DOMAIN ds : ~(ds[x] < now - STALE_CUTOFF)} |-> ds[d]]

\* cleanupOldSessions: what is left in temp_sessions
DirsAfterCleanup == CleanedDirs(dirs, hasSessionsDir, clock)

RemoveAt(seq, i) == SubSeq(seq, 1, i - 1) \o SubSeq(seq, i + 1, Len(seq))

\* GET /pair up to its first await: validation, the throttle, the opportunistic
\* cleanup and the call of useMultiFileAuthState.  cap bounds how many admitted
\* requests the clients keep in flight at once.
HandlePair(number, cap) ==
    /\ IF Falsy(number)
       THEN /\ pres' = PairResponse(400, FALSE, "Phone number is required")
            /\ UNCHANGED <<pairingAttempts, sessions, dirs, hasSessionsDir>>
       ELSE IF ~MatchesKenyan(number)
       THEN /\ pres' = PairResponse(400, FALSE,
                           "Invalid Kenyan number format. Use 2547XXXXXXX")
            /\ UNCHANGED <<pairingAttempts, sessions, dirs, hasSessionsDir>>
       ELSE IF RateLimited(RecentAttempts(number))
       THEN /\ pres' = PairResponse(429, FALSE,
                           "Too many pairing attempts. Please try again later.")
            /\ UNCHANGED <<pairingAttempts, sessions, dirs, hasSessionsDir>>
       ELSE /\ Len(sessions) < cap
            /\ pairingAttempts' =
                   Put(pairingAttempts, number, Append(RecentAttempts(number), clock))
            /\ dirs' = DirsAfterCleanup
            /\ hasSessionsDir' = TRUE
            /\ sessions' = Append(sessions,
                   [number |-> number, dir |-> SessionDir(number), pc |-> "auth",
                    socket |-> "none", timer |-> 0, race |-> 0,
                    lib |-> "none", sent |-> 0])
            /\ UNCHANGED pres
    /\ UNCHANGED <<clock, ticks, nextCleanup>>
    /\ UNCHANGED <<serverVars, trip, running>>

\* GET /pair
PairRequest(number, cap) == HandlePair(number, cap) /\ UNCHANGED admitted

\* GET /pair, with the request put on record if the throttle let it pass
PairRequestRecorded(number, cap) ==
    /\ HandlePair(number, cap)
    /\ admitted' = IF pairingAttempts' = pairingAttempts THEN admitted
                   ELSE Put(admitted, number, Append(AdmittedOf(number), clock))

\* useMultiFileAuthState resolves: the session directory exists, the socket is
\* made and the 30 s connection timer is set
AuthStateReady(i) ==
    /\ sessions[i].pc = "auth"
    /\ dirs' = IF sessions[i].dir \in DOMAIN dirs THEN dirs
               ELSE Put(dirs, sessions[i].dir, clock)
    /\ hasSessionsDir' = TRUE
    /\ sessions' = [sessions EXCEPT ![i].pc = "connecting", ![i].socket = "open",
                                    ![i].timer = clock + HANDSHAKE_TIMEOUT,
                                    ![i].lib = "connecting"]
    /\ UNCHANGED <<clock, ticks, nextCleanup, pairingAttempts, pres>>
    /\ UNCHANGED <<serverVars, trip, running, admitted>>

\* useMultiFileAuthState rejects before anything was created: the catch answers
\* 500 and the request holds nothing
AuthStateFails(i) ==
    /\ sessions[i].pc = "auth"
    /\ pres' = PairResponse(500, FALSE, "Failed to generate pairing code")
    /\ sessions' = RemoveAt(sessions, i)
    /\ UNCHANGED <<clock, ticks, nextCleanup, pairingAttempts, dirs, hasSessionsDir>>
    /\ UNCHANGED <<serverVars, trip, running, admitted>>

\* connection.update with connection === 'open': requestPairingCode is called
\* and raced against a second 30 s timer
ConnectionOpen(i) ==
    /\ sessions[i].pc = "connecting"
    /\ sessions' = [sessions EXCEPT ![i].pc = "pairing", ![i].timer = 0,
                                    ![i].race = clock + HANDSHAKE_TIMEOUT,
                                    ![i].lib = "code"]
    /\ UNCHANGED <<clock, ticks, nextCleanup, pairingAttempts, dirs, hasSessionsDir, pres>>
    /\ UNCHANGED <<serverVars, trip, running, admitted>>

\* connection.update with connection === 'close': the catch answers 500; the
\* library has closed the socket, the session directory stays
ConnectionClose(i) ==
    /\ sessions[i].pc = "connecting"
    /\ pres' = PairResponse(500, FALSE, "Connection closed")
    /\ sessions' = [sessions EXCEPT ![i].pc = "failed", ![i].socket = "closed",
                                    ![i].timer = 0, ![i].lib = "none",
                                    ![i].sent = @ + 1]
    /\ UNCHANGED <<clock, ticks, nextCleanup, pairingAttempts, dirs, hasSessionsDir>>
    /\ UNCHANGED <<serverVars, trip, running, admitted>>

\* the 30 s connection timer fires: the catch answers 500 and nothing is released
ConnectionTimeout(i) ==
    /\ sessions[i].pc = "connecting"
    /\ clock >= sessions[i].timer
    /\ pres' = PairResponse(500, FALSE, "Connection timeout")
    /\ sessions' = [sessions EXCEPT ![i].pc = "failed", ![i].timer = 0,
                                    ![i].sent = @ + 1]
    /\ UNCHANGED <<clock, ticks, nextCleanup, pairingAttempts, dirs, hasSessionsDir>>
    /\ UNCHANGED <<serverVars, trip, running, admitted>>

\* requestPairingCode resolves: 200 with the formatted code, and the 2 min
\* cleanup timer is set
PairingCodeReceived(i, code) ==
    /\ sessions[i].pc = "pairing"
    /\ pres' = [PairResponse(200, TRUE, "") EXCEPT !.pairCode = FormatCode(code)]
    /\ sessions' = [sessions EXCEPT ![i].pc = "paired",
                                    ![i].timer = clock + PAIR_EXPIRES,
                                    ![i].lib = "none", ![i].sent = @ + 1]
    /\ UNCHANGED <<clock, ticks, nextCleanup, pairingAttempts, dirs, hasSessionsDir>>
    /\ UNCHANGED <<serverVars, trip, running, admitted>>

\* requestPairingCode rejects: the catch answers 500 and nothing is released
PairingCodeFails(i) ==
    /\ sessions[i].pc = "pairing"
    /\ pres' = PairResponse(500, FALSE, "Failed to generate pairing code")
    /\ sessions' = [sessions EXCEPT ![i].pc = "failed", ![i].lib = "none",
                                    ![i].sent = @ + 1]
    /\ UNCHANGED <<clock, ticks, nextCleanup, pairingAttempts, dirs, hasSessionsDir>>
    /\ UNCHANGED <<serverVars, trip, running, admitted>>

\* the 30 s pairing-code timer wins the race
PairingCodeTimeout(i) ==
    /\ sessions[i].pc = "pairing"
    /\ clock >= sessions[i].race
    /\ pres' = PairResponse(500, FALSE, "Pairing code timeout")
    /\ sessions' = [sessions EXCEPT ![i].pc = "failed", ![i].race = 0,
                                    ![i].sent = @ + 1]
    /\ UNCHANGED <<clock, ticks, nextCleanup, pairingAttempts, dirs, hasSessionsDir>>
    /\ UNCHANGED <<serverVars, trip, running, admitted>>

\* ReleasedDirs without the fs.rmSync
ReleasedDirsKept(i) == dirs

\* fs.rmSync(sessionDir, { recursive: true, force: true }) of request i
ReleasedDirs(i) == Delete(dirs, sessions[i].dir)

\* the 2 min timer of a request that was answered 200: socket.end() and
\* fs.rmSync(sessionDir, { recursive: true, force: true })
SessionCleanup(i) ==
    /\ sessions[i].pc = "paired"
    /\ clock >= sessions[i].timer
    /\ dirs' = ReleasedDirs(i)
    /\ sessions' = RemoveAt(sessions, i)
    /\ UNCHANGED <<clock, ticks, nextCleanup, pairingAttempts, hasSessionsDir, pres>>
    /\ UNCHANGED <<serverVars, trip, running, admitted>>

\* setInterval(cleanupOldSessions, 60 * 60 * 1000): the callback runs once the
\* interval is over, possibly late, and the next run is due an interval later
PeriodicCleanup ==
    /\ clock >= nextCleanup
    /\ dirs' = DirsAfterCleanup
    /\ hasSessionsDir' = TRUE
    /\ nextCleanup' = clock + CLEANUP_INTERVAL
    /\ UNCHANGED <<clock, ticks, pairingAttempts, sessions, pres>>
    /\ UNCHANGED <<serverVars, trip, running, admitted>>

\* LateEvent answering the request once more
LateEventResponds(i, socket, lib) ==
    [sessions EXCEPT ![i].socket = socket, ![i].lib = lib, ![i].sent = @ + 1]

\* a library event that finds the promise it would settle settled already:
\* resolve() and reject() do nothing, the handler's continuation does not run
\* again and no response is sent
LateEvent(i, socket, lib) ==
    [sessions EXCEPT ![i].socket = socket, ![i].lib = lib]

\* connection.update with connection === 'open' after the connection timer
\* has rejected connectionPromise
LateConnectionOpen(i) ==
    /\ sessions[i].pc = "failed"
    /\ sessions[i].lib = "connecting"
    /\ sessions' = LateEvent(i, sessions[i].socket, "none")
    /\ UNCHANGED <<clock, ticks, nextCleanup, pairingAttempts, dirs, hasSessionsDir, pres>>
    /\ UNCHANGED <<serverVars, trip, running, admitted>>

\* connection.update with connection === 'close' after connectionPromise was
\* settled: the library has closed the socket
LateConnectionClose(i) ==
    /\ sessions[i].pc \in {"pairing", "paired", "failed"}
    /\ sessions[i].socket = "open"
    /\ sessions' = LateEvent(i, "closed",
           IF sessions[i].lib = "connecting" THEN "none" ELSE sessions[i].lib)
    /\ UNCHANGED <<clock, ticks, nextCleanup, pairingAttempts, dirs, hasSessionsDir, pres>>
    /\ UNCHANGED <<serverVars, trip, running, admitted>>

\* requestPairingCode settles after the 30 s timer has won the race
LatePairingCode(i) ==
    /\ sessions[i].pc = "failed"
    /\ sessions[i].lib = "code"
    /\ sessions' = LateEvent(i, sessions[i].socket, "none")
    /\ UNCHANGED <<clock, ticks, nextCleanup, pairingAttempts, dirs, hasSessionsDir, pres>>
    /\ UNCHANGED <<serverVars, trip, running, admitted>>

\* the timer raced against requestPairingCode is never cleared: it fires after
\* the race was decided and rejects a promise nobody awaits
RaceTimerLate(i) ==
    /\ sessions[i].pc \in {"paired", "failed"}
    /\ sessions[i].race > 0
    /\ clock >= sessions[i].race
    /\ sessions' = [sessions EXCEPT ![i].race = 0]
    /\ UNCHANGED <<clock, ticks, nextCleanup, pairingAttempts, dirs, hasSessionsDir, pres>>
    /\ UNCHANGED <<serverVars, trip, running, admitted>>

\* the directories cleanupOldSessions calls fs.rmSync for
StaleDirs == {d \in DOMAIN dirs : dirs[d] < clock - STALE_CUTOFF}

\* cleanupOldSessions with fs.rmSync throwing for directory bad: the forEach
\* has no try, so the loop ends there.  done are the stale directories
\* readdirSync listed before bad; the others are not looked at.
DirsAfterThrow(bad, done) == [d \in DOMAIN dirs \ done |-> dirs[d]]

\* GET /pair with the opportunistic cleanupOldSessions throwing: the attempt
\* was recorded before the try, the catch answers 500 with the error's
\* message and no handshake is started
PairRequestCleanupThrows(number, bad, done) ==
    /\ ~Falsy(number)
    /\ MatchesKenyan(number)
    /\ ~RateLimited(RecentAttempts(number))
    /\ hasSessionsDir
    /\ bad \in StaleDirs
    /\ done \subseteq StaleDirs \ {bad}
    /\ pairingAttempts' =
           Put(pairingAttempts, number, Append(RecentAttempts(number), clock))
    /\ dirs' = DirsAfterThrow(bad, done)
    /\ pres' = PairResponse(500, FALSE, "EPERM: operation not permitted, rmdir")
    /\ UNCHANGED <<clock, ticks, nextCleanup, sessions, hasSessionsDir, running,
                   admitted>>
    /\ UNCHANGED <<serverVars, trip>>

\* the setInterval run of cleanupOldSessions throwing: nothing catches the
\* exception of a timer callback and the process exits
PeriodicCleanupThrows(bad, done) ==
    /\ clock >= nextCleanup
    /\ hasSessionsDir
    /\ bad \in StaleDirs
    /\ done \subseteq StaleDirs \ {bad}
    /\ dirs' = DirsAfterThrow(bad, done)
    /\ running' = FALSE
    /\ UNCHANGED <<clock, ticks, nextCleanup, pairingAttempts, sessions,
                   hasSessionsDir, pres, admitted>>
    /\ UNCHANGED <<serverVars, trip>>

PairSteps == {PAIR_EXPIRES, ATTEMPT_WINDOW, STALE_CUTOFF + ATTEMPT_WINDOW}

\* time passes between two callbacks of index.js
PairTick(d, most) ==
    /\ ticks < most
    /\ clock' = clock + d
    /\ ticks' = ticks + 1
    /\ UNCHANGED pairVars
    /\ UNCHANGED <<serverVars, trip, running, admitted>>

PairNext ==
    \/ \E number \in PairNumbers : PairRequest(number, MaxSessions)
    \/ \E i \in DOMAIN sessions : AuthStateReady(i)
    \/ \E i \in DOMAIN sessions : AuthStateFails(i)
    \/ \E i \in DOMAIN sessions : ConnectionOpen(i)
    \/ \E i \in DOMAIN sessions : ConnectionClose(i)
    \/ \E i \in DOMAIN sessions : ConnectionTimeout(i)
    \/ \E i \in DOMAIN sessions, code \in LibraryCodes : PairingCodeReceived(i, code)
    \/ \E i \in DOMAIN sessions : PairingCodeFails(i)
    \/ \E i \in DOMAIN sessions : PairingCodeTimeout(i)
    \/ \E i \in DOMAIN sessions : SessionCleanup(i)
    \/ PeriodicCleanup
    \/ \E d \in PairSteps : PairTick(d, MaxPairTicks)

Init ==
    /\ clock = 0
    /\ ticks = 0
    /\ pairingCodes = <<>>
    /\ nextSweep = SWEEP_INTERVAL
    /\ res = Response(0, FALSE, "")
    /\ trip = <<>>
    /\ pairingAttempts = <<>>
    /\ sessions = <<>>
    /\ dirs = <<>>
    /\ hasSessionsDir = FALSE
    /\ nextCleanup = CLEANUP_INTERVAL
    /\ pres = PairResponse(0, FALSE, "")
    /\ running = TRUE
    /\ admitted = <<>>

Next ==
    \/ \E number \in ServerNumbers : GeneratePairCode(number) /\ UNCHANGED trip
    \/ \E number \in LookupNumbers, code \in CodeInputs :
           VerifyPairCode(number, code) /\ UNCHANGED trip
    \/ \E number \in LookupNumbers : GetCredentials(number) /\ UNCHANGED trip
    \/ SweepExpiredCodes /\ UNCHANGED trip
    \/ \E d \in ServerSteps : ServerTick(d, MaxTicks) /\ UNCHANGED trip

Spec == Init /\ [][Next]_vars

PairSpec == Init /\ [][PairNext]_vars

\* the deadlines of the timers that are set and have not run
SessionDeadlines ==
    {sessions[i].timer : i \in {j \in DOMAIN sessions :
                                   sessions[j].pc \in {"connecting", "paired"}}}
        \cup {sessions[i].race : i \in {j \in DOMAIN sessions : sessions[j].race > 0}}

Deadlines == SessionDeadlines \cup {nextCleanup}

Earliest(S) == CHOOSE t \in S : \A u \in S : t <= u

\* time passes up to the next timer: every timer callback runs at its
\* deadline.  Waiting for the hourly cleanup with no request timer set is
\* what the bound counts.
TimedTick ==
    /\ Earliest(Deadlines) > clock
    /\ SessionDeadlines # {} \/ ticks < MaxPairTicks
    /\ clock' = Earliest(Deadlines)
    /\ ticks' = IF SessionDeadlines = {} THEN ticks + 1 ELSE ticks
    /\ UNCHANGED pairVars
    /\ UNCHANGED <<serverVars, trip, running, admitted>>

(***************************************************************************)
(* index.js with its timers on time and the events that arrive late,       *)
(* serving one admitted request at a time.  The file system answers and    *)
(* every timer that is due runs; whether and when the library reports      *)
(* anything is up to the library.                                          *)
(***************************************************************************)
TimedNext ==
    \/ \E number \in PairNumbers : PairRequest(number, 1)
    \/ \E i \in DOMAIN sessions : AuthStateReady(i)
    \/ \E i \in DOMAIN sessions : AuthStateFails(i)
    \/ \E i \in DOMAIN sessions : ConnectionOpen(i)
    \/ \E i \in DOMAIN sessions : ConnectionClose(i)
    \/ \E i \in DOMAIN sessions : ConnectionTimeout(i)
    \/ \E i \in DOMAIN sessions, code \in LibraryCodes : PairingCodeReceived(i, code)
    \/ \E i \in DOMAIN sessions : PairingCodeFails(i)
    \/ \E i \in DOMAIN sessions : PairingCodeTimeout(i)
    \/ \E i \in DOMAIN sessions : SessionCleanup(i)
    \/ \E i \in DOMAIN sessions : LateConnectionOpen(i)
    \/ \E i \in DOMAIN sessions : LateConnectionClose(i)
    \/ \E i \in DOMAIN sessions : LatePairingCode(i)
    \/ \E i \in DOMAIN sessions : RaceTimerLate(i)
    \/ PeriodicCleanup
    \/ TimedTick

TimedFairness ==
    /\ WF_vars(TimedTick)
    /\ WF_vars(PeriodicCleanup)
    /\ WF_vars(\E i \in DOMAIN sessions : AuthStateReady(i) \/ AuthStateFails(i))
    /\ WF_vars(\E i \in DOMAIN sessions : ConnectionTimeout(i))
    /\ WF_vars(\E i \in DOMAIN sessions : PairingCodeTimeout(i))
    /\ WF_vars(\E i \in DOMAIN sessions : RaceTimerLate(i))
    /\ WF_vars(\E i \in DOMAIN sessions : SessionCleanup(i))

TimedSpec == Init /\ [][TimedNext]_vars /\ TimedFairness

(***************************************************************************)
(* index.js with one more admitted request in flight than PairSpec allows. *)
(***************************************************************************)
ConcurrentNext ==
    \/ \E number \in PairNumbers : PairRequest(number, MaxSessions + 1)
    \/ \E i \in DOMAIN sessions : AuthStateReady(i)
    \/ \E i \in DOMAIN sessions : AuthStateFails(i)
    \/ \E i \in DOMAIN sessions : ConnectionOpen(i)
    \/ \E i \in DOMAIN sessions : ConnectionClose(i)
    \/ \E i \in DOMAIN sessions : ConnectionTimeout(i)
    \/ \E i \in DOMAIN sessions, code \in LibraryCodes : PairingCodeReceived(i, code)
    \/ \E i \in DOMAIN sessions : PairingCodeFails(i)
    \/ \E i \in DOMAIN sessions : PairingCodeTimeout(i)
    \/ \E i \in DOMAIN sessions : SessionCleanup(i)
    \/ PeriodicCleanup
    \/ \E d \in PairSteps : PairTick(d, MaxPairTicks)

ConcurrentSpec == Init /\ [][ConcurrentNext]_vars

(***************************************************************************)
(* index.js with two admitted requests in flight at once and every request *)
(* that passed the throttle on record.                                     *)
(***************************************************************************)
ThrottleSteps == {PAIR_EXPIRES, ATTEMPT_WINDOW}

ThrottleNext ==
    \/ \E number \in PairNumbers : PairRequestRecorded(number, 2)
    \/ \E i \in DOMAIN sessions : AuthStateReady(i)
    \/ \E i \in DOMAIN sessions : AuthStateFails(i)
    \/ \E i \in DOMAIN sessions : ConnectionOpen(i)
    \/ \E i \in DOMAIN sessions : ConnectionClose(i)
    \/ \E i \in DOMAIN sessions : ConnectionTimeout(i)
    \/ \E i \in DOMAIN sessions, code \in LibraryCodes : PairingCodeReceived(i, code)
    \/ \E i \in DOMAIN sessions : PairingCodeFails(i)
    \/ \E i \in DOMAIN sessions : PairingCodeTimeout(i)
    \/ \E i \in DOMAIN sessions : SessionCleanup(i)
    \/ PeriodicCleanup
    \/ \E d \in ThrottleSteps : PairTick(d, MaxPairTicks)

ThrottleSpec == Init /\ [][ThrottleNext]_vars

(***************************************************************************)
(* index.js on a file system whose fs.rmSync may throw (a directory that   *)
(* is busy or not the process's to remove), over a time long enough for    *)
(* two directories of different age to grow old.                           *)
(***************************************************************************)
FaultSteps == {PAIR_EXPIRES, STALE_CUTOFF + ATTEMPT_WINDOW}

FaultNext ==
    \/ \E number \in PairNumbers : running /\ PairRequest(number, MaxSessions + 1)
    \/ \E i \in DOMAIN sessions : running /\ AuthStateReady(i)
    \/ \E i \in DOMAIN sessions : running /\ AuthStateFails(i)
    \/ \E i \in DOMAIN sessions : running /\ ConnectionOpen(i)
    \/ \E i \in DOMAIN sessions : running /\ ConnectionClose(i)
    \/ \E i \in DOMAIN sessions : running /\ ConnectionTimeout(i)
    \/ \E i \in DOMAIN sessions, code \in LibraryCodes :
           running /\ PairingCodeReceived(i, code)
    \/ \E i \in DOMAIN sessions : running /\ PairingCodeFails(i)
    \/ \E i \in DOMAIN sessions : running /\ PairingCodeTimeout(i)
    \/ \E i \in DOMAIN sessions : running /\ SessionCleanup(i)
    \/ running /\ PeriodicCleanup
    \/ \E number \in PairNumbers, bad \in DOMAIN dirs, done \in SUBSET DOMAIN dirs :
           running /\ PairRequestCleanupThrows(number, bad, done)
    \/ \E bad \in DOMAIN dirs, done \in SUBSET DOMAIN dirs :
           running /\ PeriodicCleanupThrows(bad, done)
    \/ \E d \in FaultSteps : running /\ PairTick(d, MaxPairTicks + 1)

FaultSpec == Init /\ [][FaultNext]_vars

(***************************************************************************)
(* Either program, whichever the process was started as, serving one       *)
(* client at a time: a program takes steps only while the other one has    *)
(* taken none.                                                             *)
(***************************************************************************)
ServerIdle ==
    /\ pairingCodes = <<>>
    /\ nextSweep = SWEEP_INTERVAL
    /\ res = Response(0, FALSE, "")

PairIdle ==
    /\ pairingAttempts = <<>>
    /\ sessions = <<>>
    /\ dirs = <<>>
    /\ ~hasSessionsDir
    /\ nextCleanup = CLEANUP_INTERVAL
    /\ pres = PairResponse(0, FALSE, "")
    /\ admitted = <<>>

EitherNext ==
    \/ \E number \in ServerNumbers :
           PairIdle /\ GeneratePairCode(number) /\ UNCHANGED trip
    \/ \E number \in LookupNumbers, code \in CodeInputs :
           PairIdle /\ VerifyPairCode(number, code) /\ UNCHANGED trip
    \/ \E number \in LookupNumbers :
           PairIdle /\ GetCredentials(number) /\ UNCHANGED trip
    \/ PairIdle /\ SweepExpiredCodes /\ UNCHANGED trip
    \/ \E d \in ServerSteps : PairIdle /\ ServerTick(d, MaxPairTicks) /\ UNCHANGED trip
    \/ \E number \in PairNumbers : ServerIdle /\ PairRequest(number, 1)
    \/ \E i \in DOMAIN sessions : ServerIdle /\ AuthStateReady(i)
    \/ \E i \in DOMAIN sessions : ServerIdle /\ AuthStateFails(i)
    \/ \E i \in DOMAIN sessions : ServerIdle /\ ConnectionOpen(i)
    \/ \E i \in DOMAIN sessions : ServerIdle /\ ConnectionClose(i)
    \/ \E i \in DOMAIN sessions : ServerIdle /\ ConnectionTimeout(i)
    \/ \E i \in DOMAIN sessions, code \in LibraryCodes :
           ServerIdle /\ PairingCodeReceived(i, code)
    \/ \E i \in DOMAIN sessions : ServerIdle /\ PairingCodeFails(i)
    \/ \E i \in DOMAIN sessions : ServerIdle /\ PairingCodeTimeout(i)
    \/ \E i \in DOMAIN sessions : ServerIdle /\ SessionCleanup(i)
    \/ ServerIdle /\ PeriodicCleanup
    \/ \E d \in PairSteps : ServerIdle /\ PairTick(d, MaxPairTicks)

EitherSpec == Init /\ [][EitherNext]_vars

(***************************************************************************)
(* Either program with its sweep at work: server.js over a longer time,    *)
(* index.js with two admitted requests, so that a sweep meets entries of   *)
(* different age.                                                          *)
(***************************************************************************)
ReaperNext ==
    \/ \E number \in ServerNumbers :
           PairIdle /\ GeneratePairCode(number) /\ UNCHANGED trip
    \/ \E number \in LookupNumbers, code \in CodeInputs :
           PairIdle /\ VerifyPairCode(number, code) /\ UNCHANGED trip
    \/ \E number \in LookupNumbers :
           PairIdle /\ GetCredentials(number) /\ UNCHANGED trip
    \/ PairIdle /\ SweepExpiredCodes /\ UNCHANGED trip
    \/ \E d \in ServerSteps : PairIdle /\ ServerTick(d, MaxTicks) /\ UNCHANGED trip
    \/ \E number \in PairNumbers : ServerIdle /\ PairRequest(number, 2)
    \/ \E i \in DOMAIN sessions : ServerIdle /\ AuthStateReady(i)
    \/ \E i \in DOMAIN sessions : ServerIdle /\ AuthStateFails(i)
    \/ \E i \in DOMAIN sessions : ServerIdle /\ ConnectionOpen(i)
    \/ \E i \in DOMAIN sessions : ServerIdle /\ ConnectionClose(i)
    \/ \E i \in DOMAIN sessions : ServerIdle /\ ConnectionTimeout(i)
    \/ \E i \in DOMAIN sessions, code \in LibraryCodes :
           ServerIdle /\ PairingCodeReceived(i, code)
    \/ \E i \in DOMAIN sessions : ServerIdle /\ PairingCodeFails(i)
    \/ \E i \in DOMAIN sessions : ServerIdle /\ PairingCodeTimeout(i)
    \/ \E i \in DOMAIN sessions : ServerIdle /\ SessionCleanup(i)
    \/ ServerIdle /\ PeriodicCleanup
    \/ \E d \in PairSteps : ServerIdle /\ PairTick(d, MaxPairTicks)

ReaperSpec == Init /\ [][ReaperNext]_vars

(***************************************************************************)
(* server.js with the round trips of its clients recorded.                 *)
(***************************************************************************)
Outcome(r) ==
    [success |-> r.success, message |-> r.message, credentials |-> r.credentials]

\* The round trip of one number: issue returning code C, verify(C), redeem,
\* redeem, the first three no later than the expiry the issue announced, with
\* no other request for that number in between.  sent lists the responses of
\* the trip so far (without the code).  Any other request for the number
\* starts over.
TripOf(number) ==
    IF number \in DOMAIN trip THEN trip[number]
    ELSE [code |-> NoCode, expiresAt |-> 0, sent |-> <<>>]

TripAfter(op, number, code) ==
    LET r == res'
        t == TripOf(number)
        more == [t EXCEPT !.sent = Append(t.sent, Outcome(r))]
    IN  CASE Falsy(number) -> trip
          [] op = "generate" /\ r.success ->
                 Put(trip, number, [code |-> r.code, expiresAt |-> r.expiresAt,
                                    sent |-> <<Outcome(r)>>])
          [] op = "verify" /\ Len(t.sent) = 1 /\ code = t.code
                /\ clock <= t.expiresAt -> Put(trip, number, more)
          [] op = "credentials" /\ Len(t.sent) = 2 /\ clock <= t.expiresAt ->
                 Put(trip, number, [more EXCEPT !.code = NoCode, !.expiresAt = 0])
          [] op = "credentials" /\ Len(t.sent) = 3 -> Put(trip, number, more)
          [] OTHER -> Delete(trip, number)

TripNext ==
    \/ \E number \in ServerNumbers :
           GeneratePairCode(number) /\ trip' = TripAfter("generate", number, Undefined)
    \/ \E number \in LookupNumbers, code \in CodeInputs :
           VerifyPairCode(number, code) /\ trip' = TripAfter("verify", number, code)
    \/ \E number \in LookupNumbers :
           GetCredentials(number) /\ trip' = TripAfter("credentials", number, Undefined)
    \/ SweepExpiredCodes /\ UNCHANGED trip
    \/ \E d \in ServerSteps : ServerTick(d, MaxTicks) /\ UNCHANGED trip

TripSpec == Init /\ [][TripNext]_vars

(***************************************************************************)
(* The failure kinds of the specification, as server.js words them.        *)
(***************************************************************************)
IsNotFound(r) ==
    /\ ~r.success
    /\ r.message \in {"No pairing session found",
                      "No active pairing session for this number",
                      "Pairing code has expired"}

IsNotVerified(r) == ~r.success /\ r.message = "Pairing code not verified"

IsInvalidCode(r) == ~r.success /\ r.message = "Invalid pairing code"

IsInvalidIdentity(r) ==
    /\ ~r.success
    /\ r.status = 400
    /\ r.message \in {"Invalid phone number format", "Phone number is required",
                      "Invalid Kenyan number format. Use 2547XXXXXXX"}

\* a stored record the verify handler would not call expired
Live(n) == n \in DOMAIN pairingCodes /\ ~(clock > pairingCodes[n].expiresAt)

Expired(n) == n \in DOMAIN pairingCodes /\ clock > pairingCodes[n].expiresAt

\* the codes of the model, each with its lower-case form
LowerCased == [c \in CodeInputs \cup {generatePairingCode(b) : b \in RandomBytes4}
                  |-> ToLowerCase(c)]

SameCodeIgnoringCase(a, b) == LowerCased[a] = LowerCased[b]

(***************************************************************************)
(* C1: an issue for a number that has a non-expired stored session fails   *)
(* and leaves that session's code, expiresAt and verified flag as they     *)
(* were.  server.js writes a new record over it.                           *)
(***************************************************************************)
C1_IssueOnLiveSessionConflicts ==
    [][\A n \in ServerNumbers :
          (Live(n) /\ GeneratePairCode(n)) =>
              (~res'.success /\ pairingCodes' = pairingCodes)]_vars

(***************************************************************************)
(* C3: a redeem at a time later than the session's expiresAt fails with    *)
(* NotFound and returns no credentials, whatever the verified flag.        *)
(* server.js never compares expiresAt in /get-credentials.                 *)
(***************************************************************************)
C3_RedeemAfterExpiryNotFound ==
    [][\A n \in LookupNumbers :
          (Expired(n) /\ GetCredentials(n)) =>
              (IsNotFound(res') /\ ~res'.credentials)]_vars

(***************************************************************************)
(* C4: a redeem on a non-expired session that was never verified fails     *)
(* with NotVerified, returns no credentials and leaves the Map unchanged.  *)
(***************************************************************************)
C4_RedeemPendingNotVerified ==
    [][\A n \in LookupNumbers :
          (Live(n) /\ ~pairingCodes[n].verified /\ GetCredentials(n)) =>
              /\ IsNotVerified(res')
              /\ ~res'.credentials
              /\ pairingCodes' = pairingCodes]_vars

C4_Witness ==
    /\ IsNotVerified(res)
    /\ \E n \in DOMAIN pairingCodes : Live(n) /\ ~pairingCodes[n].verified

(***************************************************************************)
(* C5: round trip.  After an issue that returned code C, a verify with C   *)
(* and a redeem, both no later than expiresAt and with no other request    *)
(* for the number in between, succeed, the redeem returns credentials and  *)
(* removes the session, and a second redeem fails with NotFound.           *)
(***************************************************************************)
C5_RoundTrip ==
    \A n \in DOMAIN trip :
        LET sent == trip[n].sent
        IN  /\ Len(sent) >= 1 => sent[1].success
            /\ (Len(sent) = 1 /\ clock <= trip[n].expiresAt) =>
                   /\ n \in DOMAIN pairingCodes
                   /\ pairingCodes[n].code = trip[n].code
                   /\ pairingCodes[n].expiresAt = trip[n].expiresAt
            /\ Len(sent) >= 2 => sent[2].success
            /\ (Len(sent) = 2 /\ clock <= trip[n].expiresAt) =>
                   /\ n \in DOMAIN pairingCodes
                   /\ pairingCodes[n].verified
            /\ Len(sent) >= 3 => sent[3].success /\ sent[3].credentials
            /\ Len(sent) >= 3 => n \notin DOMAIN pairingCodes
            /\ Len(sent) >= 4 =>
                   /\ ~sent[4].credentials
                   /\ ~sent[4].success
                   /\ sent[4].message = "No pairing session found"

C5_Witness == \E n \in DOMAIN trip : Len(trip[n].sent) = 4

(***************************************************************************)
(* C6: a verify with the stored code, compared without regard to case, on  *)
(* a non-expired session succeeds and leaves the session Verified with     *)
(* its code and expiresAt untouched; on a session that is Verified         *)
(* already it succeeds again and changes nothing.                          *)
(***************************************************************************)
C6_VerifyIdempotent ==
    [][\A n \in LookupNumbers, c \in CodeInputs :
          (/\ Live(n)
           /\ SameCodeIgnoringCase(c, pairingCodes[n].code)
           /\ VerifyPairCode(n, c)) =>
              /\ res'.success
              /\ DOMAIN pairingCodes' = DOMAIN pairingCodes
              /\ pairingCodes'[n].verified
              /\ pairingCodes'[n].code = pairingCodes[n].code
              /\ pairingCodes'[n].expiresAt = pairingCodes[n].expiresAt
              /\ \A m \in DOMAIN pairingCodes \ {n} : pairingCodes'[m] = pairingCodes[m]
              /\ pairingCodes[n].verified => pairingCodes' = pairingCodes]_vars

C6_Witness ==
    /\ res.success
    /\ res.message = "Pairing code verified successfully"
    /\ \E n \in DOMAIN pairingCodes : Live(n) /\ pairingCodes[n].verified

(***************************************************************************)
(* C7: a verify that supplies a code differing, without regard to case,    *)
(* from the code of a non-expired stored session fails with InvalidCode    *)
(* and changes neither the Map nor any throttle list.                      *)
(***************************************************************************)
C7_WrongCodeChangesNothing ==
    [][\A n \in LookupNumbers, c \in CodeInputs :
          (/\ ~Falsy(c)
           /\ Live(n)
           /\ ~SameCodeIgnoringCase(c, pairingCodes[n].code)
           /\ VerifyPairCode(n, c)) =>
              /\ IsInvalidCode(res')
              /\ pairingCodes' = pairingCodes
              /\ pairingAttempts' = pairingAttempts]_vars

C7_Witness ==
    /\ IsInvalidCode(res)
    /\ \E n \in DOMAIN pairingCodes : Live(n) /\ pairingCodes[n].verified

(***************************************************************************)
(* C8: a verify at a time later than the session's expiresAt fails, with   *)
(* the correct code too, and no step makes a session Verified at a time    *)
(* later than its expiresAt.                                               *)
(***************************************************************************)
C8_VerifyAfterExpiryFails ==
    [][/\ \A n \in LookupNumbers, c \in CodeInputs :
              (Expired(n) /\ VerifyPairCode(n, c)) =>
                  /\ ~res'.success
                  /\ ~Falsy(c) => IsNotFound(res')
                  /\ n \in DOMAIN pairingCodes' => pairingCodes'[n] = pairingCodes[n]
       /\ \A n \in DOMAIN pairingCodes' :
              (/\ pairingCodes'[n].verified
               /\ ~(n \in DOMAIN pairingCodes /\ pairingCodes[n].verified)) =>
                  clock' <= pairingCodes'[n].expiresAt]_vars

C8_Witness ==
    /\ res.message = "Pairing code has expired"
    /\ ~res.success


\* a handshake that holds its socket and directory and has neither failed nor
\* reached the expiry it advertised
LiveHandshake(i) ==
    /\ sessions[i].pc \in {"connecting", "pairing", "paired"}
    /\ sessions[i].socket = "open"
    /\ sessions[i].dir \in DOMAIN dirs
    /\ clock < (IF sessions[i].pc = "pairing" THEN sessions[i].race
                ELSE sessions[i].timer)

(***************************************************************************)
(* C2: for every identity at most one handshake session is live, that is   *)
(* has its socket open and its session directory in place and has neither  *)
(* failed nor reached its advertised expiry.  index.js starts a handshake  *)
(* for every admitted request, whatever is in flight for the number.       *)
(***************************************************************************)
C2_OneLiveSessionPerIdentity ==
    \A i, j \in DOMAIN sessions :
        (i # j /\ sessions[i].number = sessions[j].number) =>
            ~(LiveHandshake(i) /\ LiveHandshake(j))

\* the recorded attempts of n that lie inside the window ending now
InsideWindow(n) == {i \in 1..Len(Attempts(n)) : clock - Attempts(n)[i] < ATTEMPT_WINDOW}

IsRateLimited(r) == ~r.success /\ r.status = 429

Admitted(n) ==
    /\ Len(sessions') = Len(sessions) + 1
    /\ sessions'[Len(sessions')].number = n
    /\ pres' = pres
    /\ Len(pairingAttempts'[n]) = Cardinality(InsideWindow(n)) + 1
    /\ pairingAttempts'[n][Len(pairingAttempts'[n])] = clock

(***************************************************************************)
(* C9: throttle of one identity.  A request that finds fewer than          *)
(* MAX_ATTEMPTS attempts recorded inside the window is admitted and        *)
(* recorded; one that finds MAX_ATTEMPTS of them is answered 429 and not   *)
(* recorded; and once the window has elapsed since the earliest recorded   *)
(* attempt the request is admitted again.                                  *)
(***************************************************************************)
C9_Throttle ==
    [][\A n \in PairNumbers :
          (~Falsy(n) /\ MatchesKenyan(n) /\ PairRequest(n, MaxSessions)) =>
              /\ Cardinality(InsideWindow(n)) < MAX_ATTEMPTS => Admitted(n)
              /\ Cardinality(InsideWindow(n)) >= MAX_ATTEMPTS =>
                     /\ IsRateLimited(pres')
                     /\ pairingAttempts' = pairingAttempts
                     /\ sessions' = sessions
              /\ (Attempts(n) # <<>> /\ clock - Attempts(n)[1] >= ATTEMPT_WINDOW) =>
                     Admitted(n)]_vars

\* a request was answered 429 and, the window over, a later one was admitted
C9_Witness ==
    /\ IsRateLimited(pres)
    /\ Len(Attempts(Kenyan7)) = 1
    /\ Attempts(Kenyan7)[1] >= ATTEMPT_WINDOW

\* the malformed identities of the inputs: missing, empty, not digits, too
\* short, too long, not the accepted prefix
MalformedForServer == {Undefined, <<>>, Letters, FiveDigits, TwentyOneDigits}

MalformedForPair == {Undefined, <<>>, Letters, SixDigits, Kenyan8}

(***************************************************************************)
(* C10: an issue request with a malformed identity is answered             *)
(* InvalidIdentity and changes nothing: no attempt is recorded, no session *)
(* record, handshake or directory is created, and no cleanup runs.         *)
(***************************************************************************)
C10_MalformedIdentityRejected ==
    [][/\ \A n \in MalformedForServer :
              GeneratePairCode(n) =>
                  /\ IsInvalidIdentity(res')
                  /\ pairingCodes' = pairingCodes
       /\ \A n \in MalformedForPair :
              PairRequest(n, 1) =>
                  /\ IsInvalidIdentity(pres')
                  /\ UNCHANGED <<pairingAttempts, sessions, dirs,
                                 hasSessionsDir, nextCleanup>>]_vars

C10_Witness ==
    /\ IsInvalidIdentity(pres)
    /\ pairingAttempts # <<>>
    /\ dirs # <<>>
\* a directory of temp_sessions the cleanup calls old
Stale(d) == dirs[d] < clock - STALE_CUTOFF

C12_VerifiedNeverBackToPending ==
    [][\A n \in DOMAIN pairingCodes :
          (Live(n) /\ pairingCodes[n].verified /\ n \in DOMAIN pairingCodes') =>
              pairingCodes'[n].verified]_vars

(***************************************************************************)
(* C13: no two different numbers have stored, non-expired records with     *)
(* the same code.  server.js stores whatever crypto.randomBytes returned   *)
(* without looking at the codes of the other records.                      *)
(***************************************************************************)
C13_LiveCodesUnique ==
    \A n, m \in DOMAIN pairingCodes :
        (n # m /\ Live(n) /\ Live(m)) => pairingCodes[n].code # pairingCodes[m].code

(***************************************************************************)
(* C14: a request that was answered with an error after its socket and     *)
(* session directory were made holds neither: in no state has a request    *)
(* failed while its socket is open or its directory exists.  The catch of  *)
(* index.js only sends the 500.                                            *)
(***************************************************************************)
C14_FailureReleasesArtifact ==
    \A i \in DOMAIN sessions :
        sessions[i].pc = "failed" =>
            /\ sessions[i].socket # "open"
            /\ sessions[i].dir \notin DOMAIN dirs

\* request i was answered 200 and its 2 min timer has not run
Paired(i) == sessions[i].pc = "paired"

\* request i was admitted and has not been answered
InFlight(i) == sessions[i].pc \in {"auth", "connecting", "pairing"}

\* no other request for the number was admitted in the millisecond request i
\* was, so that no other request was given the directory of request i
SoleOwner(i) ==
    Cardinality({k \in 1..Len(Attempts(sessions[i].number)) :
                    Attempts(sessions[i].number)[k] = sessions[i].dir.at}) = 1

IsUpstreamTimeout(r) ==
    /\ ~r.success
    /\ r.status = 500
    /\ r.message \in {"Connection timeout", "Pairing code timeout"}

C19_OneResponseEventually ==
    /\ [](\A i \in DOMAIN sessions :
              /\ sessions[i].sent = (IF InFlight(i) THEN 0 ELSE 1)
              /\ sessions[i].pc = "connecting" => clock <= sessions[i].timer
              /\ sessions[i].pc = "pairing" => clock <= sessions[i].race)
    /\ [][\A i \in DOMAIN sessions :
              (InFlight(i) /\ (ConnectionTimeout(i) \/ PairingCodeTimeout(i))) =>
                  /\ IsUpstreamTimeout(pres')
                  /\ sessions'[i].sent = 1
                  /\ sessions'[i].pc = "failed"]_vars
    /\ (\E i \in DOMAIN sessions : InFlight(i)) ~> (\A i \in DOMAIN sessions : ~InFlight(i))

\* a request ended by the pairing-code timer, its library call settled since
C19_Witness ==
    /\ pres.message = "Pairing code timeout"
    /\ \E i \in DOMAIN sessions :
           /\ sessions[i].pc = "failed"
           /\ sessions[i].sent = 1
           /\ sessions[i].lib = "none"
           /\ sessions[i].race = 0

(***************************************************************************)
(* C16: when fs.rmSync throws for one directory during cleanupOldSessions, *)
(* every other stale directory is still removed in that run, a GET /pair   *)
(* whose opportunistic run it was is admitted all the same, and the        *)
(* process with its hourly timer stays up.  cleanupOldSessions has no try  *)
(* around the removal.                                                     *)
(***************************************************************************)
C16_SweepSurvivesReleaseFailure ==
    [][\A bad \in DOMAIN dirs, done \in SUBSET DOMAIN dirs :
          /\ PeriodicCleanupThrows(bad, done) =>
                 /\ \A d \in StaleDirs \ {bad} : d \notin DOMAIN dirs'
                 /\ running'
          /\ \A n \in PairNumbers :
                 PairRequestCleanupThrows(n, bad, done) =>
                     /\ \A d \in StaleDirs \ {bad} : d \notin DOMAIN dirs'
                     /\ Len(sessions') = Len(sessions) + 1
                     /\ pres' = pres]_vars

\* the reference throttle: the timestamps not older than now - window
ReferenceKept(list, now) == SelectSeq(list, LAMBDA t : t >= now - ATTEMPT_WINDOW)

(***************************************************************************)
(* C17: the throttle of GET /pair decides as the reference checkAndRecord  *)
(* does: with kept the recorded timestamps t >= now - window (one exactly  *)
(* a window old is kept), the request is answered 429 and the record left  *)
(* alone if kept has MAX_ATTEMPTS entries or more, and otherwise kept with *)
(* now appended is stored.  index.js keeps t only if now - t < window.     *)
(***************************************************************************)
C17_ThrottleEqualsReference ==
    [][\A n \in PairNumbers :
          (~Falsy(n) /\ MatchesKenyan(n) /\ PairRequest(n, MaxSessions)) =>
              LET kept == ReferenceKept(Attempts(n), clock)
              IN  IF Len(kept) >= MAX_ATTEMPTS
                  THEN IsRateLimited(pres') /\ pairingAttempts' = pairingAttempts
                  ELSE pairingAttempts' = Put(pairingAttempts, n, Append(kept, clock))]_vars

\* a request that was admitted and has been answered with an error or has
\* been released holds nothing; the others are the live ones
LiveSession(i) == sessions[i].pc \in {"auth", "connecting", "pairing", "paired"}

(***************************************************************************)
(* C18: no two live requests have the same session directory, also when    *)
(* both are for the same number and read the same Date.now().  index.js    *)
(* names the directory by number and millisecond only.                     *)
(***************************************************************************)
C18_DistinctSessionDirs ==
    \A i, j \in DOMAIN sessions :
        (i # j /\ LiveSession(i) /\ LiveSession(j)) =>
            sessions[i].dir # sessions[j].dir

\* how many requests for n were admitted at a time t with from <= t < from + window
AdmittedInWindow(n, from) ==
    Cardinality({k \in 1..Len(admitted[n]) :
                    admitted[n][k] >= from /\ admitted[n][k] < from + ATTEMPT_WINDOW})

(***************************************************************************)
(* C20: however the requests interleave, handlers suspended in the         *)
(* handshake included, no window of ATTEMPT_WINDOW milliseconds has more   *)
(* than MAX_ATTEMPTS admitted requests of one number in it, and the list   *)
(* stored for a number never has more than MAX_ATTEMPTS entries.  A window *)
(* with the most admissions in it can be taken to start at an admission.   *)
(***************************************************************************)
C20_ThrottleHoldsUnderInterleaving ==
    /\ \A n \in DOMAIN admitted :
           \A k \in 1..Len(admitted[n]) :
               AdmittedInWindow(n, admitted[n][k]) <= MAX_ATTEMPTS
    /\ \A n \in DOMAIN pairingAttempts : Len(pairingAttempts[n]) <= MAX_ATTEMPTS

\* the fourth request of a window was answered 429 while two admitted
\* requests were suspended in the handshake
C20_Witness ==
    /\ IsRateLimited(pres)
    /\ Len(AdmittedOf(Kenyan7)) = MAX_ATTEMPTS
    /\ Cardinality({i \in DOMAIN sessions : InFlight(i)}) >= 2

====
